---- MODULE Spec2Model ----
(***************************************************************************)
(* A model of mydb's storage layer (src/src/mydb/storage/__init__.py):     *)
(* the schema model, the header, value and row codecs, and the table       *)
(* lifecycle (create, open, insert, length, query) over one directory.     *)
(*                                                                         *)
(* Representation.                                                         *)
(*   bytes   a sequence of numbers 0..255                                  *)
(*   str     a sequence of Unicode code points (no surrogates)             *)
(*   value   [t, neg, b]: t = "str" with b the code points, or t = "int"   *)
(*           with neg the sign and b the magnitude as big-endian bytes     *)
(*           without leading zeros (Python's unbounded int)                *)
(*   raising a call returns [err |-> <exception name>, val |-> <<>>];      *)
(*           a normal return is [err |-> "", val |-> <result>]             *)
(***************************************************************************)
EXTENDS Integers, Sequences, FiniteSets, TLC

VARIABLES fs, handles, hist, res, cx, calls

vars == <<fs, handles, hist, res, cx, calls>>

----------------------------------------------------------------------------
(* Program constants *)

STRING_LENGTH == 16
INTEGER_LENGTH == 8
MAX_TABLE_NAME_LENGTH == 255

\* The longest file name the file system takes, in bytes (NAME_MAX).
FS_NAME_MAX == 255

----------------------------------------------------------------------------
(* Results of calls that may raise *)

Ok(v) == [err |-> "", val |-> v]
Raise(e) == [err |-> e, val |-> <<>>]

----------------------------------------------------------------------------
(* Sequences and bytes *)

Repeat(x, n) == [i \in 1..n |-> x]

\* F(lo) \o F(lo + 1) \o ... \o F(hi), by halves
RECURSIVE FlatMapRange(_, _, _)
FlatMapRange(F(_), lo, hi) ==
  IF lo > hi THEN <<>>
  ELSE IF lo = hi THEN F(lo)
  ELSE LET mid == (lo + hi) \div 2
       IN FlatMapRange(F, lo, mid) \o FlatMapRange(F, mid + 1, hi)

Range(s) == {s[i] : i \in 1..Len(s)}

\* bytes.lstrip(b"\x00")
RECURSIVE lstrip_nul(_)
lstrip_nul(b) ==
  IF b # <<>> /\ Head(b) = 0 THEN lstrip_nul(Tail(b)) ELSE b

\* bytes.startswith / a literal at a position (1-based)
HasAt(b, pos, lit) ==
  /\ pos + Len(lit) - 1 <= Len(b)
  /\ \A i \in 1..Len(lit) : b[pos + i - 1] = lit[i]

\* b[pos .. pos+n-1], cut at the end of b as file.read(n) is
ReadAt(b, pos, n) ==
  SubSeq(b, pos, IF pos + n - 1 <= Len(b) THEN pos + n - 1 ELSE Len(b))

----------------------------------------------------------------------------
(* str.encode("utf-8") and bytes.decode("utf-8") *)

Utf8Char(cp) ==
  IF cp < 128 THEN <<cp>>
  ELSE IF cp < 2048 THEN <<192 + (cp \div 64), 128 + (cp % 64)>>
  ELSE IF cp < 65536
    THEN <<224 + (cp \div 4096), 128 + ((cp \div 64) % 64), 128 + (cp % 64)>>
  ELSE <<240 + (cp \div 262144), 128 + ((cp \div 4096) % 64),
         128 + ((cp \div 64) % 64), 128 + (cp % 64)>>

encode_utf8(s) == FlatMapRange(LAMBDA i : Utf8Char(s[i]), 1, Len(s))

IsCont(b, i) == i <= Len(b) /\ b[i] >= 128 /\ b[i] < 192

\* The length of the sequence a lead byte announces; 0 for a byte that
\* starts none (a continuation byte, C0, C1, F5 and above)
Utf8Need(c) ==
  IF c < 128 THEN 1
  ELSE IF c >= 194 /\ c < 224 THEN 2
  ELSE IF c >= 224 /\ c < 240 THEN 3
  ELSE IF c >= 240 /\ c < 245 THEN 4
  ELSE 0

\* The second byte d may follow the lead byte c: a continuation byte that
\* makes the sequence neither overlong, nor a surrogate, nor above U+10FFFF
Utf8Second(c, d) ==
  /\ d >= (IF c = 224 THEN 160 ELSE IF c = 240 THEN 144 ELSE 128)
  /\ d <= (IF c = 237 THEN 159 ELSE IF c = 244 THEN 143 ELSE 191)

\* The number of bytes from b[i] on that the decoder takes as one unit: the
\* whole sequence, or of a malformed one the part that was well formed
Utf8Prefix(b, i) ==
  IF Utf8Need(b[i]) <= 1 THEN 1
  ELSE IF ~(i + 1 <= Len(b) /\ Utf8Second(b[i], b[i + 1])) THEN 1
  ELSE IF Utf8Need(b[i]) = 2 \/ ~IsCont(b, i + 2) THEN 2
  ELSE IF Utf8Need(b[i]) = 3 \/ ~IsCont(b, i + 3) THEN 3
  ELSE 4

\* The length of the UTF-8 sequence starting at b[i]; 0 when it is malformed.
Utf8Len(b, i) ==
  IF Utf8Need(b[i]) > 0 /\ Utf8Prefix(b, i) = Utf8Need(b[i])
    THEN Utf8Need(b[i])
  ELSE 0

Utf8Point(b, i, n) ==
  IF n = 1 THEN b[i]
  ELSE IF n = 2 THEN (b[i] - 192) * 64 + (b[i + 1] - 128)
  ELSE IF n = 3
    THEN (b[i] - 224) * 4096 + (b[i + 1] - 128) * 64 + (b[i + 2] - 128)
  ELSE (b[i] - 240) * 262144 + (b[i + 1] - 128) * 4096
       + (b[i + 2] - 128) * 64 + (b[i + 3] - 128)

\* Every byte that is not a continuation byte starts a well-formed
\* sequence, and the text starts with such a byte.
WellFormedUtf8(b) ==
  /\ b # <<>> => ~IsCont(b, 1)
  /\ \A i \in 1..Len(b) :
       ~IsCont(b, i)
         => /\ Utf8Len(b, i) > 0
            /\ ~IsCont(b, i + Utf8Len(b, i))

\* bytes.decode("utf-8"): the code points, or UnicodeDecodeError
decode_utf8(b) ==
  IF \A i \in 1..Len(b) : b[i] < 128 THEN Ok(b)
  ELSE IF ~WellFormedUtf8(b) THEN Raise("UnicodeDecodeError")
  ELSE Ok(FlatMapRange(
            LAMBDA i : IF IsCont(b, i) THEN <<>>
                       ELSE <<Utf8Point(b, i, Utf8Len(b, i))>>,
            1, Len(b)))

\* b[i] belongs to the unit that the nearest byte before it that is no
\* continuation byte starts
InUnitBefore(b, i) ==
  /\ IsCont(b, i)
  /\ \E j \in {i - 3, i - 2, i - 1} :
       /\ j >= 1 /\ ~IsCont(b, j)
       /\ \A k \in (j + 1)..(i - 1) : IsCont(b, k)
       /\ i < j + Utf8Prefix(b, j)

\* bytes.decode("utf-8", errors="replace"): U+FFFD for every malformed unit.
\* A number from 256 on stands for the character 256 below it, which is
\* not to be decoded.
decode_utf8_replace(b) ==
  FlatMapRange(
    LAMBDA i : IF b[i] >= 256 THEN <<b[i] - 256>>
               ELSE IF InUnitBefore(b, i) THEN <<>>
               ELSE IF Utf8Len(b, i) > 0
                 THEN <<Utf8Point(b, i, Utf8Len(b, i))>>
               ELSE <<65533>>,
    1, Len(b))

----------------------------------------------------------------------------
(* Python values: str and int *)

PyStr(s) == [t |-> "str", neg |-> FALSE, b |-> s]
PyInt(neg, mag) == [t |-> "int", neg |-> neg, b |-> mag]

\* b - 1 on a big-endian byte string (b > 0)
RECURSIVE DecBytes(_)
DecBytes(b) ==
  LET n == Len(b)
  IN IF b[n] > 0 THEN Append(SubSeq(b, 1, n - 1), b[n] - 1)
     ELSE Append(DecBytes(SubSeq(b, 1, n - 1)), 255)

\* b + 1 on a big-endian byte string (no carry out of the top byte)
RECURSIVE IncBytes(_)
IncBytes(b) ==
  LET n == Len(b)
  IN IF b[n] < 255 THEN Append(SubSeq(b, 1, n - 1), b[n] + 1)
     ELSE Append(IncBytes(SubSeq(b, 1, n - 1)), 0)

Complement(b) == [i \in 1..Len(b) |-> 255 - b[i]]

\* int.to_bytes(length, "big", signed=True)
int_to_bytes(v, length) ==
  LET Negative(minus_one) ==
        IF minus_one[1] >= 128 THEN Raise("OverflowError")
        ELSE Ok(Complement(minus_one))
      Signed(padded) ==
        IF v.neg THEN Negative(DecBytes(padded))
        ELSE IF padded[1] >= 128 THEN Raise("OverflowError")
        ELSE Ok(padded)
  IN IF Len(v.b) > length THEN Raise("OverflowError")
     ELSE IF length = 0 THEN Ok(<<>>)
     ELSE Signed(Repeat(0, length - Len(v.b)) \o v.b)

\* int.from_bytes(b, "big", signed=True)
int_from_bytes(b) ==
  IF b = <<>> THEN PyInt(FALSE, <<>>)
  ELSE IF b[1] >= 128 THEN PyInt(TRUE, lstrip_nul(IncBytes(Complement(b))))
  ELSE PyInt(FALSE, lstrip_nul(b))

----------------------------------------------------------------------------
(* Datatype registry and the value codec *)

ALL_DATATYPES == {"STRING", "INTEGER"}

_DATATYPE_LENGHTS(datatype) ==
  IF datatype = "STRING" THEN STRING_LENGTH ELSE INTEGER_LENGTH

\* A variant that pads on the right.
left_pad_right(value, length) == value \o Repeat(0, length - Len(value))

left_pad(value, length) == Repeat(0, length - Len(value)) \o value

\* A variant without the width assertion.
_serialize_value_unchecked(datatype, value) ==
  IF datatype = "STRING" /\ value.t = "str"
    THEN Ok(left_pad(encode_utf8(value.b), STRING_LENGTH))
  ELSE IF datatype = "INTEGER" /\ value.t = "int"
    THEN int_to_bytes(value, INTEGER_LENGTH)
  ELSE Raise("ValueError")

\* The match on (datatype, value), then the width assertion
_serialize_value(datatype, value) ==
  LET Checked(as_bytes) ==
        IF as_bytes.err # "" THEN as_bytes
        ELSE IF Len(as_bytes.val) # _DATATYPE_LENGHTS(datatype)
          THEN Raise("AssertionError")
        ELSE as_bytes
  IN Checked(
       IF datatype = "STRING" /\ value.t = "str"
         THEN Ok(left_pad(encode_utf8(value.b), _DATATYPE_LENGHTS("STRING")))
       ELSE IF datatype = "INTEGER" /\ value.t = "int"
         THEN int_to_bytes(value, _DATATYPE_LENGHTS("INTEGER"))
       ELSE Raise("ValueError"))

\* Decoding of the bytes fd.read(width) returned
_deserialize_value(datatype, value_as_bytes) ==
  LET Decoded(d) == IF d.err # "" THEN d ELSE Ok(PyStr(d.val))
  IN IF datatype = "STRING"
       THEN Decoded(decode_utf8(lstrip_nul(value_as_bytes)))
     ELSE IF datatype = "INTEGER" THEN Ok(int_from_bytes(value_as_bytes))
     ELSE Raise("KeyError")

----------------------------------------------------------------------------
(* Schema model: ColumnInfo is [name, datatype]; TableInfo is the sequence *)
(* of its columns.                                                         *)

ColumnInfo(name, datatype) == [name |-> name, datatype |-> datatype]

ColumnNames(table_info) == {table_info[i].name : i \in 1..Len(table_info)}

\* The position a dict built column by column keeps for a name: the last one.
LastIndex(table_info, name) ==
  CHOOSE i \in 1..Len(table_info) :
    /\ table_info[i].name = name
    /\ \A j \in (i + 1)..Len(table_info) : table_info[j].name # name

RECURSIVE WidthSum(_, _)
WidthSum(table_info, n) ==
  IF n = 0 THEN 0
  ELSE WidthSum(table_info, n - 1) + _DATATYPE_LENGHTS(table_info[n].datatype)

\* A variant that counts a column's own width into its offset.
column_offsets_shifted(table_info) ==
  [name \in ColumnNames(table_info) |->
     WidthSum(table_info, LastIndex(table_info, name))]

column_offsets(table_info) ==
  [name \in ColumnNames(table_info) |->
     WidthSum(table_info, LastIndex(table_info, name) - 1)]

columns_dict(table_info) ==
  [name \in ColumnNames(table_info) |->
     table_info[LastIndex(table_info, name)]]

row_length(table_info) == WidthSum(table_info, Len(table_info))

----------------------------------------------------------------------------
(* Header codec: TableInfo.model_dump_json / model_validate_json *)

LF == 10
QUOTE == 34
BACKSLASH == 92

LitColumnsOpen == <<123, 34, 99, 111, 108, 117, 109, 110, 115, 34, 58, 91>>
LitNameKey == <<123, 34, 110, 97, 109, 101, 34, 58>>
LitDatatypeKey == <<44, 34, 100, 97, 116, 97, 116, 121, 112, 101, 34, 58, 34>>
LitSTRING == <<83, 84, 82, 73, 78, 71>>
LitINTEGER == <<73, 78, 84, 69, 71, 69, 82>>
LitColumnClose == <<34, 125>>
LitColumnsClose == <<93, 125>>
COMMA == 44

HexLower == <<48, 49, 50, 51, 52, 53, 54, 55, 56, 57, 97, 98, 99, 100, 101, 102>>
HexUpper == <<48, 49, 50, 51, 52, 53, 54, 55, 56, 57, 65, 66, 67, 68, 69, 70>>

\* The value of a hexadecimal digit, -1 for any other byte.
HexVal(c) ==
  IF c >= 48 /\ c <= 57 THEN c - 48
  ELSE IF c >= 97 /\ c <= 102 THEN c - 87
  ELSE IF c >= 65 /\ c <= 70 THEN c - 55
  ELSE -1

\* One code point inside a JSON string, as the serializer escapes it.
JsonEscape(cp) ==
  IF cp = QUOTE THEN <<BACKSLASH, QUOTE>>
  ELSE IF cp = BACKSLASH THEN <<BACKSLASH, BACKSLASH>>
  ELSE IF cp = 8 THEN <<BACKSLASH, 98>>
  ELSE IF cp = 9 THEN <<BACKSLASH, 116>>
  ELSE IF cp = 10 THEN <<BACKSLASH, 110>>
  ELSE IF cp = 12 THEN <<BACKSLASH, 102>>
  ELSE IF cp = 13 THEN <<BACKSLASH, 114>>
  ELSE IF cp < 32
    THEN <<BACKSLASH, 117, 48, 48, HexLower[(cp \div 16) + 1],
           HexLower[(cp % 16) + 1]>>
  ELSE Utf8Char(cp)

RECURSIVE JsonEscapeAll(_)
JsonEscapeAll(s) ==
  IF s = <<>> THEN <<>> ELSE JsonEscape(Head(s)) \o JsonEscapeAll(Tail(s))

JsonString(s) == <<QUOTE>> \o JsonEscapeAll(s) \o <<QUOTE>>

JsonColumn(col) ==
  LitNameKey \o JsonString(col.name) \o LitDatatypeKey
  \o (IF col.datatype = "STRING" THEN LitSTRING ELSE LitINTEGER)
  \o LitColumnClose

RECURSIVE JsonColumns(_)
JsonColumns(cols) ==
  IF cols = <<>> THEN <<>>
  ELSE IF Len(cols) = 1 THEN JsonColumn(cols[1])
  ELSE JsonColumn(Head(cols)) \o <<COMMA>> \o JsonColumns(Tail(cols))

\* table_info.model_dump_json(indent=None), as UTF-8
model_dump_json(table_info) ==
  LitColumnsOpen \o JsonColumns(table_info) \o LitColumnsClose

_serialize_header(table_info) ==
  LET Terminated(as_string) ==
        IF LF \in Range(as_string) THEN Raise("RuntimeError")
        ELSE Ok(as_string \o <<LF>>)
  IN Terminated(model_dump_json(table_info))

\* The number b[i .. i+3] writes in hexadecimal, -1 if it writes none
Hex4(b, i) ==
  IF i + 3 <= Len(b) /\ \A k \in 0..3 : HexVal(b[i + k]) >= 0
    THEN HexVal(b[i]) * 4096 + HexVal(b[i + 1]) * 256
         + HexVal(b[i + 2]) * 16 + HexVal(b[i + 3])
  ELSE -1

\* The first position from i on that holds a quote, a backslash or a
\* control character, which end a run of plain bytes of a JSON string
RECURSIVE JsonPlainEnd(_, _)
JsonPlainEnd(b, i) ==
  IF i <= Len(b) /\ b[i] # QUOTE /\ b[i] # BACKSLASH /\ b[i] >= 32
    THEN JsonPlainEnd(b, i + 1)
  ELSE i

\* The body of a JSON string whose opening quote is before b[i]:
\* [ok, val (the unescaped bytes), next (the position after the closing quote)]
RECURSIVE JsonUnescape(_, _, _)
JsonUnescape(b, i, acc) ==
  IF i > Len(b) THEN [ok |-> FALSE, val |-> <<>>, next |-> i]
  ELSE IF b[i] = QUOTE THEN [ok |-> TRUE, val |-> acc, next |-> i + 1]
  ELSE IF b[i] < 32 THEN [ok |-> FALSE, val |-> <<>>, next |-> i]
  ELSE IF b[i] # BACKSLASH
    THEN JsonUnescape(b, JsonPlainEnd(b, i),
                      acc \o SubSeq(b, i, JsonPlainEnd(b, i) - 1))
  ELSE IF i + 1 > Len(b) THEN [ok |-> FALSE, val |-> <<>>, next |-> i]
  ELSE LET c == b[i + 1]
           high == Hex4(b, i + 2)
           low == IF HasAt(b, i + 6, <<BACKSLASH, 117>>) THEN Hex4(b, i + 8)
                  ELSE -1
       IN IF c \in {QUOTE, BACKSLASH, 47}
            THEN JsonUnescape(b, i + 2, Append(acc, c))
          ELSE IF c = 98 THEN JsonUnescape(b, i + 2, Append(acc, 8))
          ELSE IF c = 116 THEN JsonUnescape(b, i + 2, Append(acc, 9))
          ELSE IF c = 110 THEN JsonUnescape(b, i + 2, Append(acc, 10))
          ELSE IF c = 102 THEN JsonUnescape(b, i + 2, Append(acc, 12))
          ELSE IF c = 114 THEN JsonUnescape(b, i + 2, Append(acc, 13))
          ELSE IF c # 117 \/ high < 0
            THEN [ok |-> FALSE, val |-> <<>>, next |-> i]
          ELSE IF high < 55296 \/ high > 57343
            THEN JsonUnescape(b, i + 6, acc \o Utf8Char(high))
          ELSE IF high < 56320 /\ low >= 56320 /\ low <= 57343
            THEN JsonUnescape(b, i + 12,
                   acc \o Utf8Char(65536 + (high - 55296) * 1024
                                   + (low - 56320)))
          ELSE [ok |-> FALSE, val |-> <<>>, next |-> i]

\* The JSON string whose opening quote is b[i]: [ok, val (the str), next]
JsonStringAt(b, i) ==
  LET Decoded(body, text) ==
        [ok |-> body.ok /\ text.err = "", val |-> text.val,
         next |-> body.next]
      Unescaped(body) == Decoded(body, decode_utf8(body.val))
  IN Unescaped(JsonUnescape(b, i + 1, <<>>))

\* The first position from i on that holds no white space
RECURSIVE SkipSpace(_, _)
SkipSpace(b, i) ==
  IF i <= Len(b) /\ b[i] \in {32, 9, 10, 13} THEN SkipSpace(b, i + 1)
  ELSE i

IsDigit(b, i) == i <= Len(b) /\ b[i] >= 48 /\ b[i] <= 57

RECURSIVE SkipDigits(_, _)
SkipDigits(b, i) == IF IsDigit(b, i) THEN SkipDigits(b, i + 1) ELSE i

\* The longest integer part, sign included, that the reader of
\* model_validate_json takes in a number
JSON_INT_MAX_LENGTH == 4300

\* The most non-empty arrays and objects, one in another, that the reader
\* of model_validate_json takes
JSON_RECURSION_LIMIT == 200

\* The position after the JSON number that starts at b[i]; 0 if none does
\* or its integer part is too long
JsonNumberEnd(b, i) ==
  LET Exponent(k) ==
        IF ~(k <= Len(b) /\ b[k] \in {101, 69}) THEN k
        ELSE LET d == IF k + 1 <= Len(b) /\ b[k + 1] \in {43, 45}
                        THEN k + 2 ELSE k + 1
             IN IF IsDigit(b, d) THEN SkipDigits(b, d) ELSE 0
      Fraction(k) ==
        IF ~HasAt(b, k, <<46>>) THEN Exponent(k)
        ELSE IF IsDigit(b, k + 1) THEN Exponent(SkipDigits(b, k + 1))
        ELSE 0
      Whole(k) ==
        IF ~IsDigit(b, k) THEN 0
        ELSE IF b[k] = 48
          THEN IF IsDigit(b, k + 1) THEN 0 ELSE Fraction(k + 1)
        ELSE IF SkipDigits(b, k) - i > JSON_INT_MAX_LENGTH THEN 0
        ELSE Fraction(SkipDigits(b, k))
  IN IF HasAt(b, i, <<45>>) THEN Whole(i + 1) ELSE Whole(i)

\* What a field of a model was last given: nothing yet
NoFields ==
  [field \in {"columns", "name", "datatype"} |->
     [seen |-> FALSE, good |-> FALSE, val |-> <<>>]]

\* What the value of the key is validated as: a key no field of the model
\* has is ignored
FieldWant(want, key) ==
  LET KeyColumns == <<99, 111, 108, 117, 109, 110, 115>>
      KeyName == <<110, 97, 109, 101>>
      KeyDatatype == <<100, 97, 116, 97, 116, 121, 112, 101>>
  IN IF want = "TableInfo" /\ key = KeyColumns THEN "columns"
     ELSE IF want = "ColumnInfo" /\ key = KeyName THEN "name"
     ELSE IF want = "ColumnInfo" /\ key = KeyDatatype THEN "datatype"
     ELSE "ignored"

BadJson == [ok |-> FALSE, good |-> FALSE, val |-> <<>>, next |-> 0]

\* The JSON value that starts at b[i], validated as want ("TableInfo",
\* "ColumnInfo", "columns", "name", "datatype" or "ignored"):
\* [ok (it is JSON), good (it validates), val (as validated), next];
\* depth counts the non-empty arrays and objects the value is in
RECURSIVE JsonValue(_, _, _, _)
RECURSIVE JsonElements(_, _, _, _, _, _)
RECURSIVE JsonMembers(_, _, _, _, _)
JsonValue(b, i, want, depth) ==
  LET LitTrue == <<116, 114, 117, 101>>
      LitFalse == <<102, 97, 108, 115, 101>>
      LitNull == <<110, 117, 108, 108>>
      LitNaN == <<78, 97, 78>>
      LitInfinity == <<73, 110, 102, 105, 110, 105, 116, 121>>
      Plain(next) ==
        IF next = 0 THEN BadJson
        ELSE [ok |-> TRUE, good |-> want = "ignored", val |-> <<>>,
              next |-> next]
      Text(str) ==
        IF ~str.ok THEN BadJson
        ELSE IF want = "name"
          THEN [ok |-> TRUE, good |-> TRUE, val |-> str.val,
                next |-> str.next]
        ELSE IF want = "datatype" /\ str.val \in {LitSTRING, LitINTEGER}
          THEN [ok |-> TRUE, good |-> TRUE,
                val |-> IF str.val = LitSTRING THEN "STRING" ELSE "INTEGER",
                next |-> str.next]
        ELSE Plain(str.next)
      List(j) ==
        IF HasAt(b, j, <<93>>)
          THEN [ok |-> TRUE, good |-> want \in {"columns", "ignored"},
                val |-> <<>>, next |-> j + 1]
        ELSE IF depth >= JSON_RECURSION_LIMIT THEN BadJson
        ELSE JsonElements(b, j, want, TRUE, <<>>, depth + 1)
      Object(j) ==
        IF HasAt(b, j, <<125>>)
          THEN [ok |-> TRUE, good |-> want = "ignored", val |-> <<>>,
                next |-> j + 1]
        ELSE IF depth >= JSON_RECURSION_LIMIT THEN BadJson
        ELSE JsonMembers(b, j, want, NoFields, depth + 1)
  IN IF i > Len(b) THEN BadJson
     ELSE IF b[i] = QUOTE THEN Text(JsonStringAt(b, i))
     ELSE IF b[i] = 91 THEN List(SkipSpace(b, i + 1))
     ELSE IF b[i] = 123 THEN Object(SkipSpace(b, i + 1))
     ELSE IF HasAt(b, i, LitTrue) THEN Plain(i + Len(LitTrue))
     ELSE IF HasAt(b, i, LitFalse) THEN Plain(i + Len(LitFalse))
     ELSE IF HasAt(b, i, LitNull) THEN Plain(i + Len(LitNull))
     ELSE IF HasAt(b, i, LitNaN) THEN Plain(i + Len(LitNaN))
     ELSE IF HasAt(b, i, LitInfinity) THEN Plain(i + Len(LitInfinity))
     ELSE IF HasAt(b, i, <<45>> \o LitInfinity)
       THEN Plain(i + 1 + Len(LitInfinity))
     ELSE Plain(JsonNumberEnd(b, i))

\* The elements of an array from b[i] on, b[i] starting an element
JsonElements(b, i, want, good, acc, depth) ==
  LET After(element, j) ==
        IF HasAt(b, j, <<COMMA>>)
          THEN JsonElements(b, SkipSpace(b, j + 1), want,
                            good /\ element.good,
                            IF want = "columns" /\ good /\ element.good
                              THEN Append(acc, element.val)
                            ELSE <<>>,
                            depth)
        ELSE IF HasAt(b, j, <<93>>)
          THEN IF want = "columns" /\ good /\ element.good
                 THEN [ok |-> TRUE, good |-> TRUE,
                       val |-> Append(acc, element.val), next |-> j + 1]
               ELSE [ok |-> TRUE, good |-> want = "ignored", val |-> <<>>,
                     next |-> j + 1]
        ELSE BadJson
      Then(element) ==
        IF ~element.ok THEN BadJson
        ELSE After(element, SkipSpace(b, element.next))
  IN Then(JsonValue(b, i,
                    IF want = "columns" THEN "ColumnInfo" ELSE "ignored",
                    depth))

\* The members of an object from b[i] on, b[i] starting a key; of a key
\* that comes twice the last value counts
JsonMembers(b, i, want, found, depth) ==
  LET Made(fields) ==
        IF want = "TableInfo"
          THEN [good |-> fields.columns.good, val |-> fields.columns.val]
        ELSE IF want = "ColumnInfo"
          THEN [good |-> fields.name.good /\ fields.datatype.good,
                val |-> IF fields.name.good /\ fields.datatype.good
                          THEN ColumnInfo(fields.name.val,
                                          fields.datatype.val)
                        ELSE <<>>]
        ELSE [good |-> want = "ignored", val |-> <<>>]
      After(fields, j) ==
        IF HasAt(b, j, <<COMMA>>)
          THEN JsonMembers(b, SkipSpace(b, j + 1), want, fields, depth)
        ELSE IF HasAt(b, j, <<125>>)
          THEN [ok |-> TRUE, good |-> Made(fields).good,
                val |-> Made(fields).val, next |-> j + 1]
        ELSE BadJson
      Given(field, value) ==
        IF ~value.ok THEN BadJson
        ELSE After([name \in DOMAIN found |->
                      IF name = field
                        THEN [seen |-> TRUE, good |-> value.good,
                              val |-> value.val]
                      ELSE found[name]],
                   SkipSpace(b, value.next))
      Keyed(key, j) ==
        IF ~key.ok \/ ~HasAt(b, j, <<58>>) THEN BadJson
        ELSE Given(FieldWant(want, key.val),
                   JsonValue(b, SkipSpace(b, j + 1),
                             FieldWant(want, key.val), depth))
      Named(key) == Keyed(key, SkipSpace(b, key.next))
  IN IF ~HasAt(b, i, <<QUOTE>>) THEN BadJson
     ELSE Named(JsonStringAt(b, i))

\* TableInfo.model_validate_json(b)
model_validate_json(b) ==
  LET Validated(value) ==
        IF value.ok /\ value.good /\ SkipSpace(b, value.next) = Len(b) + 1
          THEN Ok(value.val)
        ELSE Raise("ValidationError")
  IN Validated(JsonValue(b, SkipSpace(b, 1), "TableInfo", 0))

\* A variant whose consumed length leaves the terminator out.
_deserialize_header_short(serialized_header) ==
  LET Consumed(parsed) ==
        IF parsed.err # "" THEN parsed
        ELSE Ok([info |-> parsed.val, length |-> Len(serialized_header) - 1])
  IN IF serialized_header = <<>>
        \/ serialized_header[Len(serialized_header)] # LF
       THEN Raise("AssertionError")
     ELSE Consumed(model_validate_json(
            SubSeq(serialized_header, 1, Len(serialized_header) - 1)))

\* (TableInfo, consumed length) as [info, length]
_deserialize_header(serialized_header) ==
  LET Consumed(parsed) ==
        IF parsed.err # "" THEN parsed
        ELSE Ok([info |-> parsed.val, length |-> Len(serialized_header)])
  IN IF serialized_header = <<>>
        \/ serialized_header[Len(serialized_header)] # LF
       THEN Raise("AssertionError")
     ELSE Consumed(model_validate_json(
            SubSeq(serialized_header, 1, Len(serialized_header) - 1)))

----------------------------------------------------------------------------
(* Row codec *)

\* b"".join(_serialize_value(col.datatype, values[col.name]) for col in columns):
\* the first column that fails raises; values is a function name -> value
RECURSIVE JoinValues(_, _, _)
JoinValues(table_info, values, i) ==
  LET Joined(one, rest) ==
        IF rest.err # "" THEN rest ELSE Ok(one.val \o rest.val)
      Then(one) ==
        IF one.err # "" THEN one
        ELSE Joined(one, JoinValues(table_info, values, i + 1))
  IN IF i > Len(table_info) THEN Ok(<<>>)
     ELSE IF table_info[i].name \notin DOMAIN values THEN Raise("KeyError")
     ELSE Then(_serialize_value(table_info[i].datatype,
                                values[table_info[i].name]))

\* A variant that ends the row with a line feed and does not check its
\* length.
_serialize_row_terminated(table_info, values) ==
  LET Ended(serialized) ==
        IF serialized.err # "" THEN serialized
        ELSE Ok(serialized.val \o <<LF>>)
  IN Ended(JoinValues(table_info, values, 1))

_serialize_row(table_info, values) ==
  LET Checked(serialized) ==
        IF serialized.err # "" THEN serialized
        ELSE IF Len(serialized.val) # row_length(table_info)
          THEN Raise("AssertionError")
        ELSE serialized
  IN Checked(JoinValues(table_info, values, 1))

\* A variant that reads the width of a STRING for every column.
ReadRequest_string_width(table_info, row_start, col) ==
  [pos |-> row_start + column_offsets(table_info)[col],
   n |-> _DATATYPE_LENGHTS("STRING")]

\* The seek and the read that _deserialize_row makes for a column: the
\* 0-based position sought and the number of bytes asked for
ReadRequest(table_info, row_start, col) ==
  [pos |-> row_start + column_offsets(table_info)[col],
   n |-> _DATATYPE_LENGHTS(columns_dict(table_info)[col].datatype)]

\* The 0-based positions of file_data that _deserialize_row reads for the
\* columns, in requested order (a read at the end of the file reads what
\* is there): nothing for a column the table does not have and nothing
\* after it, and nothing after a value that does not decode
RECURSIVE RowReads(_, _, _, _)
RowReads(table_info, file_data, row_start, columns) ==
  LET Positions(request) ==
        {pos \in request.pos..(request.pos + request.n - 1) :
           pos < Len(file_data)}
      Then(request, value) ==
        Positions(request)
          \cup IF value.err # "" THEN {}
               ELSE RowReads(table_info, file_data, row_start,
                             Tail(columns))
      Read(request, datatype) ==
        Then(request,
             _deserialize_value(
               datatype, ReadAt(file_data, request.pos + 1, request.n)))
  IN IF columns = <<>> THEN {}
     ELSE IF Head(columns) \notin ColumnNames(table_info) THEN {}
     ELSE Read(ReadRequest(table_info, row_start, Head(columns)),
               columns_dict(table_info)[Head(columns)].datatype)

\* The values of the requested columns, in requested order, read from
\* file_data at row_start (0-based byte offset); the first failure raises.
RECURSIVE _deserialize_row(_, _, _, _)
_deserialize_row(table_info, file_data, row_start, columns) ==
  LET Yielded(one, rest) ==
        IF rest.err # "" THEN rest ELSE Ok(<<one.val>> \o rest.val)
      Then(one) ==
        IF one.err # "" THEN one
        ELSE Yielded(one, _deserialize_row(table_info, file_data, row_start,
                                           Tail(columns)))
      Read(request, datatype) ==
        Then(_deserialize_value(
               datatype, ReadAt(file_data, request.pos + 1, request.n)))
  IN IF columns = <<>> THEN Ok(<<>>)
     ELSE IF Head(columns) \notin ColumnNames(table_info)
       THEN Raise("KeyError")
     ELSE Read(ReadRequest(table_info, row_start, Head(columns)),
               columns_dict(table_info)[Head(columns)].datatype)

----------------------------------------------------------------------------
(* Inputs of the codec checks *)

MaxFill == 17
MaxIntFill == 7
MaxCols == 2

\* NUL, "a", e-acute (2 bytes), the euro sign (3 bytes), an emoji (4 bytes)
Alphabet == {0, 97, 233, 8364, 128512}

CodecStrings ==
  {p \o Repeat(f, k) :
     p \in {<<>>} \cup {<<c>> : c \in Alphabet}, f \in {0, 97, 233},
     k \in 0..MaxFill}

\* Magnitudes around the powers of 256, 2^63 and 2^64 among them
CodecMagnitudes ==
  {<<>>} \cup
  {<<top>> \o Repeat(f, k) \o last :
     top \in {1, 127, 128, 255}, f \in {0, 255}, k \in 0..MaxIntFill,
     last \in {<<>>, <<0>>, <<1>>, <<255>>}}

CodecInts ==
  {PyInt(FALSE, m) : m \in CodecMagnitudes}
  \cup {PyInt(TRUE, m) : m \in CodecMagnitudes \ {<<>>}}

CodecValues == {PyStr(s) : s \in CodecStrings} \cup CodecInts

\* Column names: plain, with a quote, a backslash, a line feed, a NUL,
\* a two-byte character, and the empty name
HeaderNames ==
  {<<97>>, <<98>>, <<34>>, <<92, 110>>, <<10>>, <<0, 233>>, <<97, 32, 98>>,
   <<>>}

HeaderColumns ==
  {ColumnInfo(n, d) : n \in HeaderNames, d \in ALL_DATATYPES}

RECURSIVE SeqsUpTo(_, _)
SeqsUpTo(S, n) ==
  IF n = 0 THEN {<<>>}
  ELSE LET shorter == SeqsUpTo(S, n - 1)
       IN shorter \cup {Append(q, x) : q \in shorter, x \in S}

CodecSchemas == SeqsUpTo(HeaderColumns, MaxCols)

\* The TableInfo invariants of the data model: at least one column,
\* non-empty and pairwise distinct column names.
ValidSchema(info) ==
  /\ Len(info) > 0
  /\ \A i \in 1..Len(info) : info[i].name # <<>>
  /\ \A i, j \in 1..Len(info) : info[i].name = info[j].name => i = j

nA == <<97>>
nB == <<98>>
nC == <<99>>

RowSchemas ==
  {<<ColumnInfo(nA, d)>> : d \in ALL_DATATYPES}
  \cup {<<ColumnInfo(n, d), ColumnInfo(m, e)>> :
          n \in {nA, nB}, m \in {nA, nB}, d \in ALL_DATATYPES,
          e \in ALL_DATATYPES}
  \cup {<<ColumnInfo(nB, "INTEGER"), ColumnInfo(nC, "STRING"),
          ColumnInfo(nA, "INTEGER")>>,
        <<ColumnInfo(nC, "STRING"), ColumnInfo(nA, "STRING"),
          ColumnInfo(nB, "INTEGER")>>}

sPlain == PyStr(<<233, 8364>>)
sFull == PyStr(<<233>> \o Repeat(97, STRING_LENGTH - 2))
sNul == PyStr(<<0, 97>>)
sLong == PyStr(Repeat(97, STRING_LENGTH + 1))
iMinusOne == PyInt(TRUE, <<1>>)
iMax == PyInt(FALSE, <<127>> \o Repeat(255, INTEGER_LENGTH - 1))
iOver == PyInt(FALSE, <<128>> \o Repeat(0, INTEGER_LENGTH - 1))

RowValues == {sPlain, sFull, sNul, sLong, iMinusOne, iMax, iOver}

\* The schema's columns in schema order, as query_columns of the row test
AllColumns(info) == [i \in 1..Len(info) |-> info[i].name]

----------------------------------------------------------------------------
(* What the claims call in range *)

\* -2^63 <= v <= 2^63 - 1, on the sign and magnitude
InRange64(v) ==
  \/ Len(v.b) < INTEGER_LENGTH
  \/ /\ Len(v.b) = INTEGER_LENGTH
     /\ \/ v.b[1] < 128
        \/ v.neg /\ v.b = <<128>> \o Repeat(0, INTEGER_LENGTH - 1)

Utf8Size(s) == Len(encode_utf8(s))

FitsSlot(datatype, value) ==
  \/ datatype = "STRING" /\ value.t = "str"
     /\ Utf8Size(value.b) <= STRING_LENGTH
  \/ datatype = "INTEGER" /\ value.t = "int" /\ InRange64(value)

LeadingNul(value) == value.t = "str" /\ value.b # <<>> /\ value.b[1] = 0

----------------------------------------------------------------------------
(* State *)

EmptyDict == [x \in {} |-> <<>>]
NoCall == [op |-> "none"]

\* The callers whose calls may interleave, each with no call in progress
\* and no table yet
MaxProcs == 2
Procs == 1..MaxProcs
Idle == [pc |-> "idle"]

Init ==
  /\ fs = EmptyDict
  /\ handles = <<>>
  /\ hist = EmptyDict
  /\ res = NoCall
  /\ cx = NoCall
  /\ calls = [p \in Procs |-> Idle]

----------------------------------------------------------------------------
(* The codecs, each applied once to a drawn input *)

ValueCodec(datatype, value) ==
  \E ser \in {_serialize_value(datatype, value)} :
    /\ cx = NoCall
    /\ cx' = [op |-> "value", datatype |-> datatype, value |-> value,
              ser |-> ser,
              de |-> IF ser.err = "" THEN _deserialize_value(datatype, ser.val)
                     ELSE Raise("NotRun")]
    /\ UNCHANGED <<fs, handles, hist, res, calls>>

HeaderCodec(info) ==
  \E ser \in {_serialize_header(info)} :
    /\ cx = NoCall
    /\ cx' = [op |-> "header", info |-> info, ser |-> ser,
              de |-> IF ser.err = "" THEN _deserialize_header(ser.val)
                     ELSE Raise("NotRun")]
    /\ UNCHANGED <<fs, handles, hist, res, calls>>

RowCodec(info, values) ==
  \E ser \in {_serialize_row(info, values)} :
    /\ cx = NoCall
    /\ cx' = [op |-> "row", info |-> info, values |-> values, ser |-> ser,
              de |-> IF ser.err = ""
                       THEN _deserialize_row(info, ser.val, 0, AllColumns(info))
                     ELSE Raise("NotRun")]
    /\ UNCHANGED <<fs, handles, hist, res, calls>>

NextCodec ==
  \/ \E datatype \in ALL_DATATYPES, value \in CodecValues :
       ValueCodec(datatype, value)
  \/ \E info \in CodecSchemas : HeaderCodec(info)
  \/ \E info \in RowSchemas :
       \E values \in [ColumnNames(info) -> RowValues] : RowCodec(info, values)

SpecCodec == Init /\ [][NextCodec]_vars

----------------------------------------------------------------------------
(* File names: urllib.parse.quote_plus / unquote_plus and pathlib *)

\* Letters, digits and "_.-~" are never quoted.
IsSafeByte(c) ==
  \/ c >= 48 /\ c <= 57
  \/ c >= 65 /\ c <= 90
  \/ c >= 97 /\ c <= 122
  \/ c \in {95, 46, 45, 126}

QuoteByte(c) ==
  IF IsSafeByte(c) THEN <<c>>
  ELSE IF c = 32 THEN <<43>>
  ELSE <<37, HexUpper[(c \div 16) + 1], HexUpper[(c % 16) + 1]>>

\* urllib.parse.quote_plus(name): an ASCII file name
quote_plus(string) ==
  LET b == encode_utf8(string)
  IN FlatMapRange(LAMBDA i : QuoteByte(b[i]), 1, Len(b))

\* b[i] is the "%" of a %XX escape (the two digits are never "%", so
\* escapes cannot overlap)
IsEscape(b, i) ==
  /\ i >= 1 /\ i + 2 <= Len(b) /\ b[i] = 37
  /\ HexVal(b[i + 1]) >= 0 /\ HexVal(b[i + 2]) >= 0

\* What the character b[i] of a file name contributes: the byte of its
\* %XX escape, a space for "+", itself if it is ASCII, and a character
\* above ASCII as it is (256 above, see decode_utf8_replace)
UnquoteAt(b, i) ==
  IF IsEscape(b, i) THEN <<HexVal(b[i + 1]) * 16 + HexVal(b[i + 2])>>
  ELSE IF IsEscape(b, i - 1) \/ IsEscape(b, i - 2) THEN <<>>
  ELSE IF b[i] = 43 THEN <<32>>
  ELSE IF b[i] >= 128 THEN <<b[i] + 256>>
  ELSE <<b[i]>>

UnquoteBytes(b) == FlatMapRange(LAMBDA i : UnquoteAt(b, i), 1, Len(b))

\* urllib.parse.unquote_plus(file name): the bytes of each ASCII stretch are
\* decoded with errors="replace"
unquote_plus(string) == decode_utf8_replace(UnquoteBytes(string))

\* location / file_name names the directory itself or its parent
IsDirectoryPath(file_name) == file_name \in {<<>>, <<46>>, <<46, 46>>}

\* table_location.exists(): the stat of a name longer than the file system
\* takes raises
PathExists(files, file_name) ==
  IF Len(file_name) > FS_NAME_MAX THEN Raise("OSError")
  ELSE Ok(file_name \in DOMAIN files \/ IsDirectoryPath(file_name))

\* file.readline(): up to and including the first line feed
RECURSIVE FirstLineLen(_, _)
FirstLineLen(b, i) ==
  IF i > Len(b) THEN Len(b)
  ELSE IF b[i] = LF THEN i
  ELSE FirstLineLen(b, i + 1)

readline(b) == SubSeq(b, 1, FirstLineLen(b, 1))

----------------------------------------------------------------------------
(* Table *)

\* A variant that takes the whole file for the header line.
Table_init_whole(file_name, content) ==
  LET Made(header) ==
        IF header.err # "" THEN header
        ELSE Ok([location |-> file_name,
                 name |-> unquote_plus(file_name),
                 info |-> header.val.info,
                 data_start |-> Len(content)])
  IN Made(_deserialize_header(readline(content)))

\* Table.__init__(location) on a file with the given content: the handle
Table_init(file_name, content) ==
  LET Made(header) ==
        IF header.err # "" THEN header
        ELSE Ok([location |-> file_name,
                 name |-> unquote_plus(file_name),
                 info |-> header.val.info,
                 data_start |-> header.val.length])
  IN Made(_deserialize_header(readline(content)))

\* A variant that does not look whether the file exists.
Table_create_overwrite(files, name, info) ==
  LET Returned(written, table) ==
        IF table.err # ""
          THEN [err |-> table.err, files |-> written, table |-> <<>>]
        ELSE [err |-> "", files |-> written, table |-> table.val]
      Written(table_location, header) ==
        IF header.err # ""
          THEN [err |-> header.err, files |-> files, table |-> <<>>]
        ELSE IF Len(table_location) > FS_NAME_MAX
                \/ IsDirectoryPath(table_location)
          THEN [err |-> "OSError", files |-> files, table |-> <<>>]
        ELSE Returned([f \in DOMAIN files \cup {table_location} |->
                         IF f = table_location THEN header.val ELSE files[f]],
                      Table_init(table_location, header.val))
  IN IF Len(name) > MAX_TABLE_NAME_LENGTH
       THEN [err |-> "ValueError", files |-> files, table |-> <<>>]
     ELSE Written(quote_plus(name), _serialize_header(info))

\* Table.create(name, location, info) in a directory holding files:
\* [err, files (the directory afterwards), table (the handle returned)]
Table_create(files, name, info) ==
  LET Returned(written, table) ==
        IF table.err # ""
          THEN [err |-> table.err, files |-> written, table |-> <<>>]
        ELSE [err |-> "", files |-> written, table |-> table.val]
      Written(table_location, header) ==
        IF PathExists(files, table_location).err # ""
          THEN [err |-> PathExists(files, table_location).err,
                files |-> files, table |-> <<>>]
        ELSE IF PathExists(files, table_location).val
          THEN [err |-> "FileExistsError", files |-> files, table |-> <<>>]
        ELSE IF header.err # ""
          THEN [err |-> header.err, files |-> files, table |-> <<>>]
        ELSE Returned([f \in DOMAIN files \cup {table_location} |->
                         IF f = table_location THEN header.val ELSE files[f]],
                      Table_init(table_location, header.val))
  IN IF Len(name) > MAX_TABLE_NAME_LENGTH
       THEN [err |-> "ValueError", files |-> files, table |-> <<>>]
     ELSE Written(quote_plus(name), _serialize_header(info))

\* {name for name, _ in inserted}
InsertedNames(inserted) == {inserted[i][1] : i \in 1..Len(inserted)}

\* {name: value for name, value in inserted}: the last pair of a name wins
InsertedDict(inserted) ==
  [name \in InsertedNames(inserted) |->
     inserted[CHOOSE i \in 1..Len(inserted) :
                /\ inserted[i][1] = name
                /\ \A j \in (i + 1)..Len(inserted) : inserted[j][1] # name][2]]

\* A variant that opens the file for writing instead of appending.
append_bytes_truncating(content, data) == data

\* open("ab") and fd.write(data): the file after the write
append_bytes(content, data) == content \o data

\* The bytes of the columns encoded before the first one that fails
RECURSIVE WrittenBeforeFailure(_, _, _)
WrittenBeforeFailure(table_info, values, i) ==
  LET Then(one) ==
        IF one.err # "" THEN <<>>
        ELSE one.val \o WrittenBeforeFailure(table_info, values, i + 1)
  IN IF i > Len(table_info) \/ table_info[i].name \notin DOMAIN values
       THEN <<>>
     ELSE Then(_serialize_value(table_info[i].datatype,
                                values[table_info[i].name]))

\* A variant that writes each column as soon as it is encoded.
Table_insert_partial(table, inserted) ==
  LET Appended(serialized) ==
        IF serialized.err # ""
          THEN [err |-> serialized.err, cols |-> {},
                data |-> WrittenBeforeFailure(table.info,
                                              InsertedDict(inserted), 1)]
        ELSE [err |-> "", cols |-> {}, data |-> serialized.val]
      Checked(extra_columns, missing_columns) ==
        IF extra_columns # {}
          THEN [err |-> "ColumnDoesNotExist", cols |-> extra_columns,
                data |-> <<>>]
        ELSE IF missing_columns # {}
          THEN [err |-> "NotImplementedError", cols |-> missing_columns,
                data |-> <<>>]
        ELSE Appended(_serialize_row(table.info, InsertedDict(inserted)))
  IN Checked(InsertedNames(inserted) \ ColumnNames(table.info),
             ColumnNames(table.info) \ InsertedNames(inserted))

\* A variant that looks for missing columns first.
Table_insert_missing_first(table, inserted) ==
  LET Appended(serialized) ==
        IF serialized.err # ""
          THEN [err |-> serialized.err, cols |-> {}, data |-> <<>>]
        ELSE [err |-> "", cols |-> {}, data |-> serialized.val]
      Checked(extra_columns, missing_columns) ==
        IF missing_columns # {}
          THEN [err |-> "NotImplementedError", cols |-> missing_columns,
                data |-> <<>>]
        ELSE IF extra_columns # {}
          THEN [err |-> "ColumnDoesNotExist", cols |-> extra_columns,
                data |-> <<>>]
        ELSE Appended(_serialize_row(table.info, InsertedDict(inserted)))
  IN Checked(InsertedNames(inserted) \ ColumnNames(table.info),
             ColumnNames(table.info) \ InsertedNames(inserted))

\* A variant that does not look for missing columns.
Table_insert_no_missing(table, inserted) ==
  LET Appended(serialized) ==
        IF serialized.err # ""
          THEN [err |-> serialized.err, cols |-> {}, data |-> <<>>]
        ELSE [err |-> "", cols |-> {}, data |-> serialized.val]
      Checked(extra_columns) ==
        IF extra_columns # {}
          THEN [err |-> "ColumnDoesNotExist", cols |-> extra_columns,
                data |-> <<>>]
        ELSE Appended(_serialize_row(table.info, InsertedDict(inserted)))
  IN Checked(InsertedNames(inserted) \ ColumnNames(table.info))

\* Table.insert(*inserted): [err, cols (the columns an error names),
\* data (the bytes appended to the file)]
Table_insert(table, inserted) ==
  LET Appended(serialized) ==
        IF serialized.err # ""
          THEN [err |-> serialized.err, cols |-> {}, data |-> <<>>]
        ELSE [err |-> "", cols |-> {}, data |-> serialized.val]
      Checked(extra_columns, missing_columns) ==
        IF extra_columns # {}
          THEN [err |-> "ColumnDoesNotExist", cols |-> extra_columns,
                data |-> <<>>]
        ELSE IF missing_columns # {}
          THEN [err |-> "NotImplementedError", cols |-> missing_columns,
                data |-> <<>>]
        ELSE Appended(_serialize_row(table.info, InsertedDict(inserted)))
  IN Checked(InsertedNames(inserted) \ ColumnNames(table.info),
             ColumnNames(table.info) \ InsertedNames(inserted))

\* A variant that counts the header among the rows.
Table_length_total(table, size) ==
  IF row_length(table.info) = 0 THEN Raise("ZeroDivisionError")
  ELSE Ok(size \div row_length(table.info))

\* Table.length on a file of the given size: floor division, which raises
\* for a schema without columns
Table_length(table, size) ==
  IF row_length(table.info) = 0 THEN Raise("ZeroDivisionError")
  ELSE Ok((size - table.data_start) \div row_length(table.info))

\* dict(zip(columns, values)): the last value of a repeated column wins
ZipDict(columns, values) ==
  [name \in Range(columns) |->
     values[CHOOSE i \in 1..Len(columns) :
              /\ columns[i] = name
              /\ \A j \in (i + 1)..Len(columns) : columns[j] # name]]

\* A variant that starts the rows at the beginning of the file.
RECURSIVE ScanRows_no_start(_, _, _, _, _, _)
ScanRows_no_start(table, content, columns, row_num, n, rows) ==
  LET Then(row) ==
        IF row.err # "" THEN row
        ELSE ScanRows_no_start(table, content, columns, row_num + 1, n,
                               Append(rows, ZipDict(columns, row.val)))
  IN IF row_num >= n THEN Ok(rows)
     ELSE Then(_deserialize_row(
                 table.info, content,
                 row_num * row_length(table.info), columns))

\* The scan of query: rows row_num .. n-1 appended to rows
RECURSIVE ScanRows(_, _, _, _, _, _)
ScanRows(table, content, columns, row_num, n, rows) ==
  LET Then(row) ==
        IF row.err # "" THEN row
        ELSE ScanRows(table, content, columns, row_num + 1, n,
                      Append(rows, ZipDict(columns, row.val)))
  IN IF row_num >= n THEN Ok(rows)
     ELSE Then(_deserialize_row(
                 table.info, content,
                 table.data_start + row_num * row_length(table.info),
                 columns))

\* The 0-based positions of the file that the scan of query reads: those
\* of the rows in order, up to and including the first row that raises
QueryReads(table, content, columns) ==
  LET row_start(row_num) ==
        table.data_start + row_num * row_length(table.info)
      Raises(row_num) ==
        _deserialize_row(table.info, content, row_start(row_num),
                         columns).err # ""
      Scanned(length) ==
        IF length.err # "" THEN {}
        ELSE UNION {RowReads(table.info, content, row_start(row_num),
                             columns) :
                    row_num \in {r \in 0..(length.val - 1) :
                                   \A before \in 0..(r - 1) :
                                     ~Raises(before)}}
  IN IF Range(columns) \ ColumnNames(table.info) # {} THEN {}
     ELSE Scanned(Table_length(table, Len(content)))

\* Table.query(columns) on a file with the given content:
\* [err, cols (the columns an error names), rows (the records collected)]
Table_query(table, content, columns) ==
  LET Collected(length, rows) ==
        IF rows.err # ""
          THEN [err |-> rows.err, cols |-> {}, rows |-> <<>>]
        ELSE IF Len(rows.val) # length.val
          THEN [err |-> "AssertionError", cols |-> {}, rows |-> <<>>]
        ELSE [err |-> "", cols |-> {}, rows |-> rows.val]
      Scanned(length) ==
        IF length.err # ""
          THEN [err |-> length.err, cols |-> {}, rows |-> <<>>]
        ELSE Collected(length,
                       ScanRows(table, content, columns, 0, length.val, <<>>))
      Checked(extra_columns) ==
        IF extra_columns # {}
          THEN [err |-> "ColumnDoesNotExist", cols |-> extra_columns,
                rows |-> <<>>]
        ELSE Scanned(Table_length(table, Len(content)))
  IN Checked(Range(columns) \ ColumnNames(table.info))

----------------------------------------------------------------------------
(* Inputs of the table operations *)

MaxHandles == 2
MaxRows == 2

tT == <<116>>
tQuoted == <<97, 32, 47, 233>>
tMax == Repeat(97, MAX_TABLE_NAME_LENGTH)
tOver == Repeat(97, MAX_TABLE_NAME_LENGTH + 1)
tEmpty == <<>>
tDot == <<46>>
tWide == Repeat(233, MAX_TABLE_NAME_LENGTH)

\* "t", a name over the limit, and "."
TableNames == {tT, tOver, tDot}

\* A column name with a quote and a line feed in it, and one no schema has
nQ == <<98, 34, 10>>
nZ == <<122>>

sTwoColumns == <<ColumnInfo(nA, "STRING"), ColumnInfo(nQ, "INTEGER")>>
sNoColumns == <<>>
sSameName == <<ColumnInfo(nA, "STRING"), ColumnInfo(nA, "INTEGER")>>
sOneColumn == <<ColumnInfo(nA, "STRING")>>

TableSchemas == {sTwoColumns, sNoColumns, sSameName}

TableValues == {sPlain, sFull, sNul, sLong, iMinusOne, iMax, iOver}

\* One pair per column, in schema order, with any values
RECURSIVE RowsInOrder(_, _)
RowsInOrder(info, n) ==
  IF n = 0 THEN {<<>>}
  ELSE {Append(row, <<info[n].name, v>>) :
          row \in RowsInOrder(info, n - 1), v \in TableValues}

Reversed(s) == [i \in 1..Len(s) |-> s[Len(s) + 1 - i]]

\* Every column given once (in schema order or reversed), and the shapes
\* that leave a column out, repeat one or name one the schema does not have
InsertArgs(info) ==
  RowsInOrder(info, Len(info))
  \cup {Reversed(row) : row \in RowsInOrder(info, Len(info))}
  \cup {<<>>, <<<<nZ, iMax>>>>}
  \cup {<<<<n, v>>>> : n \in ColumnNames(info), v \in {sPlain, iMax}}
  \cup {<<<<n, sPlain>>, <<m, iMax>>>> :
          n \in ColumnNames(info) \cup {nZ}, m \in ColumnNames(info) \cup {nZ}}

QueryArgs(info) ==
  LET names == ColumnNames(info) \cup {nZ}
  IN {<<>>} \cup {<<n>> : n \in names} \cup {<<n, m>> : n \in names, m \in names}

----------------------------------------------------------------------------
(* Table operations on a directory that holds at most one table.  fs maps *)
(* the file names of the directory to their bytes, handles are the Table   *)
(* objects made so far, hist records per file the schema given to create   *)
(* and the mappings of the inserts that succeeded, res is the last call    *)
(* and its outcome.                                                        *)

Create(name, info) ==
  \E r \in {Table_create(fs, name, info)} :
    /\ r.err = "" => Len(handles) < MaxHandles /\ DOMAIN fs = {}
    /\ fs' = r.files
    /\ handles' = IF r.err = "" THEN Append(handles, r.table) ELSE handles
    /\ hist' = [f \in DOMAIN r.files |->
                  IF f \in DOMAIN hist THEN hist[f]
                  ELSE [info |-> info, rows |-> <<>>]]
    /\ res' = [op |-> "create", name |-> name, info |-> info, err |-> r.err]
    /\ UNCHANGED <<cx, calls>>

Open(file_name) ==
  \E r \in {Table_init(file_name, fs[file_name])} :
    /\ Len(handles) < MaxHandles
    /\ handles' = IF r.err = "" THEN Append(handles, r.val) ELSE handles
    /\ res' = [op |-> "open", location |-> file_name, err |-> r.err]
    /\ UNCHANGED <<fs, hist, cx, calls>>

Insert(h, inserted) ==
  \E table \in {handles[h]} :
    \E r \in {Table_insert(table, inserted)} :
      /\ r.err = "" => Len(hist[table.location].rows) < MaxRows
      /\ fs' = [f \in DOMAIN fs |->
                  IF f = table.location THEN append_bytes(fs[f], r.data)
                  ELSE fs[f]]
      /\ hist' = [f \in DOMAIN hist |->
                    IF f = table.location /\ r.err = ""
                      THEN [info |-> hist[f].info,
                            rows |-> Append(hist[f].rows,
                                            InsertedDict(inserted))]
                    ELSE hist[f]]
      /\ res' = [op |-> "insert", table |-> table,
                 names |-> InsertedNames(inserted),
                 err |-> r.err, cols |-> r.cols]
      /\ UNCHANGED <<handles, cx, calls>>

Length(h) ==
  \E r \in {Table_length(handles[h], Len(fs[handles[h].location]))} :
    /\ res' = [op |-> "length", table |-> handles[h], err |-> r.err,
               val |-> r.val]
    /\ UNCHANGED <<fs, handles, hist, cx, calls>>

Query(h, columns) ==
  \E r \in {Table_query(handles[h], fs[handles[h].location], columns)} :
    /\ res' = [op |-> "query", table |-> handles[h], columns |-> columns,
               err |-> r.err, cols |-> r.cols, rows |-> r.rows,
               reads |-> QueryReads(handles[h], fs[handles[h].location],
                                    columns)]
    /\ UNCHANGED <<fs, handles, hist, cx, calls>>

\* One handle for each of the different Table objects made so far: equal
\* Table objects make the same calls with the same outcomes
Callers ==
  {h \in 1..Len(handles) : \A g \in 1..(h - 1) : handles[g] # handles[h]}

Next ==
  \/ \E name \in TableNames, info \in TableSchemas : Create(name, info)
  \/ \E file_name \in DOMAIN fs : Open(file_name)
  \/ \E h \in Callers :
       \E inserted \in InsertArgs(handles[h].info) : Insert(h, inserted)
  \/ \E h \in Callers : Length(h)
  \/ \E h \in Callers :
       \E columns \in QueryArgs(handles[h].info) : Query(h, columns)

Spec == Init /\ [][Next]_vars

\* The same operations, with the names that reach the limits of create and
\* few rows
AllTableNames ==
  {tT, tQuoted, tMax, tOver, tEmpty, tDot, <<46, 46>>, tWide}

NameRunInserts ==
  {<<<<nA, sPlain>>, <<nQ, iMax>>>>, <<<<nA, sFull>>, <<nQ, iMinusOne>>>>,
   <<<<nA, sLong>>, <<nQ, iMax>>>>, <<<<nA, sPlain>>>>}

NextNames ==
  \/ \E name \in AllTableNames, info \in {sTwoColumns, sNoColumns} :
       Create(name, info)
  \/ \E file_name \in DOMAIN fs : Open(file_name)
  \/ \E h \in Callers :
       \E inserted \in NameRunInserts : Insert(h, inserted)
  \/ \E h \in Callers : Length(h)
  \/ \E h \in Callers :
       \E columns \in {<<nA>>, <<nQ, nA>>} : Query(h, columns)

SpecNames == Init /\ [][NextNames]_vars

----------------------------------------------------------------------------
(* Calls of several callers on one directory, interleaved at the points    *)
(* where a call goes to the file system: calls[p] is where caller p is in  *)
(* its call and the Table object it holds.  In a call record raced tells   *)
(* that another create wrote the file after this create found it absent,   *)
(* touched that the file was written since this query began its scan,      *)
(* remade that a create had opened the file for writing when it was        *)
(* already there before the scan began, at_start is the rows inserted      *)
(* into the file, since a create last emptied it, when the scan began, and *)
(* seen is what the reads of the header line returned so far.  In          *)
(* hist[f], remade tells that a create opened f for writing when it was    *)
(* there, and rows are the rows inserted since a create last emptied f.    *)

\* A variant that does not look whether the file exists.
create_check_no_exists(files, name) ==
  IF Len(name) > MAX_TABLE_NAME_LENGTH THEN "ValueError" ELSE ""

\* Table.create up to the write: the error raised, "" if none
create_check(files, name) ==
  LET Refused(exists) ==
        IF exists.err # "" THEN exists.err
        ELSE IF exists.val THEN "FileExistsError"
        ELSE ""
  IN IF Len(name) > MAX_TABLE_NAME_LENGTH THEN "ValueError"
     ELSE Refused(PathExists(files, quote_plus(name)))

\* write_bytes after it opened the file: the data go to the start of what
\* the file holds by then, and what lies behind them stays
write_at_start(content, data) ==
  data \o SubSeq(content, Len(data) + 1, Len(content))

\* The buffer of the file object that open("rb") returns; every file of
\* the model is shorter.
BUFFER_SIZE == 4096

\* A file object open for reading: at is its position, data the bytes it
\* holds in its buffer, read from position start of the file on
file_open == [at |-> 0, start |-> 0, data |-> <<>>]

\* file.seek(target): within the buffer if bytes of it are left to read,
\* else on the file, which empties the buffer
file_seek(file, target) ==
  IF /\ file.at < file.start + Len(file.data)
     /\ target >= file.start
     /\ target <= file.start + Len(file.data)
    THEN [file EXCEPT !.at = target]
  ELSE [at |-> target, start |-> target, data |-> <<>>]

\* file.read(n) as far as the buffer serves it: [file, got, more (the
\* number of bytes that are still to be read from the file)]
file_take(file, n) ==
  LET left == file.start + Len(file.data) - file.at
  IN IF n <= left
       THEN [file |-> [file EXCEPT !.at = file.at + n],
             got |-> SubSeq(file.data, file.at - file.start + 1,
                            file.at - file.start + n),
             more |-> 0]
     ELSE [file |-> [at |-> file.at + left, start |-> file.at + left,
                     data |-> <<>>],
           got |-> SubSeq(file.data, file.at - file.start + 1,
                          Len(file.data)),
           more |-> n - left]

\* One read of the file into the buffer, for a file.read that still wants
\* more bytes: [file, got, more (0 at the end of the file too)]
file_fill(file, content, more) ==
  LET Served(read, n) ==
        [file |-> [file EXCEPT !.data = file.data \o read,
                               !.at = file.at + n],
         got |-> SubSeq(read, 1, n),
         more |-> IF Len(file.data) + Len(read) < BUFFER_SIZE
                    THEN more - n ELSE 0]
      Read(read) ==
        IF read = <<>> THEN [file |-> file, got |-> <<>>, more |-> 0]
        ELSE Served(read, IF more < Len(read) THEN more ELSE Len(read))
  IN Read(ReadAt(content, file.start + Len(file.data) + 1,
                 BUFFER_SIZE - Len(file.data)))

\* One read of the file for file.readline() of Table.__init__, seen being
\* what the reads before returned: the line is whole (done) when the read
\* holds a line feed or finds the end of the file
header_read(seen, content) ==
  LET Read(read) ==
        [done |-> read = <<>> \/ LF \in Range(read),
         seen |-> seen \o readline(read)]
  IN Read(ReadAt(content, Len(seen) + 1, BUFFER_SIZE))

\* A variant that scans one row less than the table holds.
query_begin_short(table, size, columns) ==
  LET Ranged(length) ==
        IF length.err # "" THEN [err |-> length.err, cols |-> {}, n |-> 0]
        ELSE [err |-> "", cols |-> {},
              n |-> IF length.val > 0 THEN length.val - 1 ELSE 0]
      Checked(extra_columns) ==
        IF extra_columns # {}
          THEN [err |-> "ColumnDoesNotExist", cols |-> extra_columns,
                n |-> 0]
        ELSE Ranged(Table_length(table, size))
  IN Checked(Range(columns) \ ColumnNames(table.info))

\* Table.query up to the loop: the column check and range(self.length),
\* evaluated once; n is the number of rows the loop will read
query_begin(table, size, columns) ==
  LET Ranged(length) ==
        IF length.err # "" THEN [err |-> length.err, cols |-> {}, n |-> 0]
        ELSE [err |-> "", cols |-> {}, n |-> length.val]
      Checked(extra_columns) ==
        IF extra_columns # {}
          THEN [err |-> "ColumnDoesNotExist", cols |-> extra_columns,
                n |-> 0]
        ELSE Ranged(Table_length(table, size))
  IN Checked(Range(columns) \ ColumnNames(table.info))

\* The read of the next column of the row the scan is at, as far as one
\* read of the file takes it: [file, got, more]
read_column(call, content) ==
  LET row_start ==
        call.table.data_start
          + Len(call.rows) * row_length(call.table.info)
      At(request) ==
        file_take(
          file_seek(IF call.vals = <<>> THEN file_seek(call.file, row_start)
                    ELSE call.file,
                    request.pos),
          request.n)
      Filled(taken, read) ==
        [file |-> read.file, got |-> taken.got \o read.got,
         more |-> read.more]
      First(taken) ==
        IF taken.more = 0 THEN taken
        ELSE Filled(taken, file_fill(taken.file, content, taken.more))
  IN IF call.more > 0
       THEN Filled([got |-> call.part],
                   file_fill(call.file, content, call.more))
     ELSE First(At(ReadRequest(call.table.info, row_start,
                               call.columns[Len(call.vals) + 1])))

\* Table.query after the loop: assert len(rows) == self.length, with the
\* length read again
query_end(table, size, rows) ==
  LET Asserted(length) ==
        IF length.err # "" THEN length.err
        ELSE IF Len(rows) # length.val THEN "AssertionError"
        ELSE ""
  IN Asserted(Table_length(table, size))

Ready(table, made, raced) ==
  [pc |-> "ready", table |-> table, made |-> made, raced |-> raced]

QueryResult(call, err, cols, rows) ==
  [op |-> "query", table |-> call.table, columns |-> call.columns,
   err |-> err, cols |-> cols, rows |-> rows,
   at_start |-> call.at_start, touched |-> call.touched,
   remade |-> call.remade]

\* The scan after the read of a column ended with the bytes got:
\* [call, err (of the value that does not decode)]
scan_after(call, file, got) ==
  LET Collected(vals) ==
        IF Len(vals) = Len(call.columns)
          THEN [call EXCEPT !.file = file, !.part = <<>>, !.more = 0,
                            !.vals = <<>>,
                            !.rows = Append(call.rows,
                                            ZipDict(call.columns, vals))]
        ELSE [call EXCEPT !.file = file, !.part = <<>>, !.more = 0,
                          !.vals = vals]
      Decoded(value) ==
        IF value.err # ""
          THEN [call |-> Ready(call.table, call.made, call.raced),
                err |-> value.err]
        ELSE [call |-> Collected(Append(call.vals, value.val)), err |-> ""]
  IN Decoded(_deserialize_value(
               columns_dict(call.table.info)[
                 call.columns[Len(call.vals) + 1]].datatype,
               got))

\* The calls after caller p moved to call, the file at location having
\* been written by an insert ("insert"), by a create ("create") or not
CallsAfter(p, call, location, write) ==
  [q \in Procs |->
     IF q = p THEN call
     ELSE IF write # "none" /\ calls[q].pc = "scan"
             /\ calls[q].table.location = location
       THEN [calls[q] EXCEPT !.touched = TRUE]
     ELSE IF write = "create"
             /\ calls[q].pc \in {"create_truncate", "create_write",
                                 "create_open"}
             /\ calls[q].location = location
       THEN [calls[q] EXCEPT !.raced = TRUE]
     ELSE calls[q]]

RaceNames == {tT, tOver}
RaceSchemas == {sTwoColumns, sOneColumn, sNoColumns}
RaceInserts == {<<<<nA, sPlain>>, <<nQ, iMax>>>>, <<<<nA, sPlain>>>>}
RaceQueries == {<<nQ, nA>>, <<nA>>, <<nZ>>, <<>>}

\* Table.create, lines 80 to 86: the checks
CreateCheck(p, name, info) ==
  /\ calls[p].pc = "idle"
  /\ \E err \in {create_check(fs, name)} :
       /\ calls' = IF err # "" THEN calls
                   ELSE CallsAfter(p, [pc |-> "create_truncate",
                                       name |-> name, info |-> info,
                                       location |-> quote_plus(name),
                                       raced |-> FALSE, seen |-> <<>>],
                                   quote_plus(name), "none")
       /\ res' = IF err = "" THEN res
                 ELSE [op |-> "create", name |-> name, info |-> info,
                       err |-> err]
  /\ UNCHANGED <<fs, handles, hist, cx>>

\* Table.create, line 88: the header is made, and write_bytes opens the
\* file, which makes it or empties it
CreateTruncate(p) ==
  /\ calls[p].pc = "create_truncate"
  /\ \E call \in {calls[p]}, header \in {_serialize_header(calls[p].info)} :
       /\ fs' = IF header.err # "" THEN fs
                ELSE [f \in DOMAIN fs \cup {call.location} |->
                        IF f = call.location THEN <<>> ELSE fs[f]]
       /\ hist' = IF header.err # "" THEN hist
                  ELSE [f \in DOMAIN fs \cup {call.location} |->
                          IF f = call.location
                            THEN [info |-> call.info, rows |-> <<>>,
                                  remade |-> f \in DOMAIN fs]
                          ELSE hist[f]]
       /\ calls' = IF header.err # ""
                     THEN CallsAfter(p, Idle, call.location, "none")
                   ELSE CallsAfter(p, [call EXCEPT !.pc = "create_write"],
                                   call.location, "create")
       /\ res' = IF header.err = "" THEN res
                 ELSE [op |-> "create", name |-> call.name,
                       info |-> call.info, err |-> header.err]
  /\ UNCHANGED <<handles, cx>>

\* Table.create, line 88: write_bytes writes the header and closes the file
CreateWrite(p) ==
  /\ calls[p].pc = "create_write"
  /\ \E call \in {calls[p]} :
       \E header \in {_serialize_header(call.info).val} :
         /\ fs' = [f \in DOMAIN fs |->
                     IF f = call.location THEN write_at_start(fs[f], header)
                     ELSE fs[f]]
         /\ calls' = CallsAfter(p, [call EXCEPT !.pc = "create_open"],
                                call.location, "create")
  /\ UNCHANGED <<handles, hist, res, cx>>

\* Table.create, line 90: the handle is opened on the file, one read of
\* the header line in a step; the handle is made of the line as the reads
\* returned it
CreateOpen(p) ==
  /\ calls[p].pc = "create_open"
  /\ \E call \in {calls[p]} :
       \E read \in {header_read(call.seen, fs[call.location])} :
         \E r \in {Table_init(call.location, read.seen)} :
           /\ calls' = CallsAfter(p, IF ~read.done
                                       THEN [call EXCEPT !.seen = read.seen]
                                     ELSE IF r.err # "" THEN Idle
                                     ELSE Ready(r.val, TRUE, call.raced),
                                  call.location, "none")
           /\ res' = IF ~read.done THEN res
                     ELSE [op |-> "create", name |-> call.name,
                           info |-> call.info, err |-> r.err]
  /\ UNCHANGED <<fs, handles, hist, cx>>

\* Table(location) on a file of the directory, one read of the header
\* line in a step
OpenExisting(p, file_name) ==
  /\ IF calls[p].pc = "open" THEN calls[p].location = file_name
     ELSE calls[p].pc = "idle"
  /\ \E read \in {header_read(IF calls[p].pc = "open" THEN calls[p].seen
                               ELSE <<>>,
                               fs[file_name])} :
       \E r \in {Table_init(file_name, read.seen)} :
         /\ calls' = CallsAfter(p, IF ~read.done
                                     THEN [pc |-> "open",
                                           location |-> file_name,
                                           seen |-> read.seen]
                                   ELSE IF r.err # "" THEN Idle
                                   ELSE Ready(r.val, FALSE, FALSE),
                                file_name, "none")
         /\ res' = IF ~read.done THEN res
                   ELSE [op |-> "open", location |-> file_name,
                         err |-> r.err]
  /\ UNCHANGED <<fs, handles, hist, cx>>

\* Table.insert through the caller's handle, the append being one write
InsertCall(p, inserted) ==
  /\ calls[p].pc = "ready"
  /\ \E table \in {calls[p].table} :
       \E r \in {Table_insert(table, inserted)} :
         /\ r.err = "" => Len(hist[table.location].rows) < MaxRows
         /\ fs' = [f \in DOMAIN fs |->
                     IF f = table.location THEN append_bytes(fs[f], r.data)
                     ELSE fs[f]]
         /\ hist' = [f \in DOMAIN hist |->
                       IF f = table.location /\ r.err = ""
                         THEN [hist[f] EXCEPT
                                 !.rows = Append(hist[f].rows,
                                                 InsertedDict(inserted))]
                       ELSE hist[f]]
         /\ calls' = CallsAfter(p, calls[p], table.location,
                                IF r.err = "" THEN "insert" ELSE "none")
         /\ res' = [op |-> "insert", table |-> table,
                    names |-> InsertedNames(inserted),
                    err |-> r.err, cols |-> r.cols]
  /\ UNCHANGED <<handles, cx>>

\* Table.query, lines 113 to 119: the column check, the file opened and
\* set to the first row, and the range of the loop
QueryBegin(p, columns) ==
  /\ calls[p].pc = "ready"
  /\ \E call \in {[pc |-> "scan", table |-> calls[p].table,
                   made |-> calls[p].made, raced |-> calls[p].raced,
                   columns |-> columns, n |-> 0, rows |-> <<>>,
                   vals |-> <<>>, part |-> <<>>, more |-> 0,
                   file |-> file_seek(file_open, calls[p].table.data_start),
                   at_start |-> hist[calls[p].table.location].rows,
                   touched |-> FALSE,
                   remade |-> hist[calls[p].table.location].remade]} :
       \E r \in {query_begin(call.table, Len(fs[call.table.location]),
                             columns)} :
         /\ calls' = IF r.err # "" THEN calls
                     ELSE CallsAfter(p, [call EXCEPT !.n = r.n],
                                     call.table.location, "none")
         /\ res' = IF r.err = "" THEN res
                   ELSE QueryResult(call, r.err, r.cols, <<>>)
  /\ UNCHANGED <<fs, handles, hist, cx>>

\* The scan after the row was sought for a query of no columns, for which
\* nothing is read
scan_skip(call) ==
  [call |-> [call EXCEPT
               !.file = file_seek(call.file,
                                  call.table.data_start
                                    + Len(call.rows)
                                        * row_length(call.table.info)),
               !.rows = Append(call.rows, ZipDict(<<>>, <<>>))],
   err |-> ""]

\* The scan after one more read of the file for the next column
scan_read(call, content) ==
  LET Read(read) ==
        IF read.more > 0
          THEN [call |-> [call EXCEPT !.file = read.file,
                                      !.part = read.got,
                                      !.more = read.more],
                err |-> ""]
        ELSE scan_after(call, read.file, read.got)
  IN Read(read_column(call, content))

\* Table.query, lines 120 to 133, and _deserialize_row: the seek and the
\* read of one column of the row, as far as one read of the file takes it
QueryRead(p) ==
  /\ calls[p].pc = "scan"
  /\ Len(calls[p].rows) < calls[p].n
  /\ \E call \in {calls[p]} :
       \E next \in {IF call.columns = <<>> THEN scan_skip(call)
                    ELSE scan_read(call, fs[call.table.location])} :
         /\ calls' = CallsAfter(p, next.call, call.table.location, "none")
         /\ res' = IF next.err = "" THEN res
                   ELSE QueryResult(call, next.err, {}, <<>>)
  /\ UNCHANGED <<fs, handles, hist, cx>>

\* Table.query, lines 134 and 135: the closing assertion and the return
QueryEnd(p) ==
  /\ calls[p].pc = "scan"
  /\ Len(calls[p].rows) >= calls[p].n
  /\ \E call \in {calls[p]} :
       \E err \in {query_end(call.table, Len(fs[call.table.location]),
                             call.rows)} :
         /\ calls' = CallsAfter(p, Ready(call.table, call.made, call.raced),
                                call.table.location, "none")
         /\ res' = QueryResult(call, err, {},
                               IF err = "" THEN call.rows ELSE <<>>)
  /\ UNCHANGED <<fs, handles, hist, cx>>

NextRace ==
  \/ \E p \in Procs, name \in RaceNames, info \in RaceSchemas :
       CreateCheck(p, name, info)
  \/ \E p \in Procs : CreateTruncate(p)
  \/ \E p \in Procs : CreateWrite(p)
  \/ \E p \in Procs : CreateOpen(p)
  \/ \E p \in Procs, file_name \in DOMAIN fs : OpenExisting(p, file_name)
  \/ \E p \in Procs, inserted \in RaceInserts : InsertCall(p, inserted)
  \/ \E p \in Procs, columns \in RaceQueries : QueryBegin(p, columns)
  \/ \E p \in Procs : QueryRead(p)
  \/ \E p \in Procs : QueryEnd(p)

SpecRace == Init /\ [][NextRace]_vars

----------------------------------------------------------------------------
(* The spec's names for the exceptions the code raises *)

NameTooLong == "ValueError"
AlreadyExists == "FileExistsError"
UnsupportedFeature == "NotImplementedError"
ValueTooLarge == "AssertionError"
OutOfRange == "OverflowError"

----------------------------------------------------------------------------
(* Claims on tables, checked under Spec (C4 under SpecNames) *)

\* The rows inserted so far into the file a handle is on
RowsOf(table) == hist[table.location].rows

NoLeadingNulIn(rows) ==
  \A i \in 1..Len(rows) : \A n \in DOMAIN rows[i] : ~LeadingNul(rows[i][n])

\* C1: on a table of a valid schema whose inserted rows r1..rn (in insert
\* order) hold no STRING starting with NUL, query(cols) for a non-empty
\* sequence cols of schema columns returns exactly n records, in insert
\* order, record i mapping each queried column c to ri[c].
C1_QueryRoundTrip ==
  (/\ res.op = "query"
   /\ ValidSchema(res.table.info)
   /\ res.columns # <<>>
   /\ Range(res.columns) \subseteq ColumnNames(res.table.info)
   /\ NoLeadingNulIn(RowsOf(res.table)))
    => /\ res.err = ""
       /\ Len(res.rows) = Len(RowsOf(res.table))
       /\ \A i \in 1..Len(res.rows) :
            res.rows[i] = [n \in Range(res.columns) |->
                             RowsOf(res.table)[i][n]]

\* Two different rows were inserted and came back from a query that names
\* the columns in another order than the schema.
C1_Witness ==
  /\ res.op = "query" /\ res.err = ""
  /\ res.table.info = sTwoColumns
  /\ res.columns = <<nQ, nA>>
  /\ Len(RowsOf(res.table)) = 2
  /\ RowsOf(res.table)[1] # RowsOf(res.table)[2]
  /\ NoLeadingNulIn(RowsOf(res.table))
  /\ Len(res.rows) = 2

\* C2: on a table of a valid schema, after exactly n successful inserts
\* length returns n, whatever failed inserts and reads came in between and
\* through whichever handle on the file it is asked.
C2_LengthCountsInserts ==
  /\ (res.op = "length" /\ ValidSchema(res.table.info))
       => res.err = "" /\ res.val = Len(RowsOf(res.table))
  /\ \A h \in 1..Len(handles) :
       ValidSchema(handles[h].info)
         => Table_length(handles[h], Len(fs[handles[h].location]))
              = Ok(Len(RowsOf(handles[h])))

\* length answered 2 after two inserts, through one of two handles.
C2_Witness ==
  /\ res.op = "length" /\ res.err = "" /\ res.val = 2
  /\ ValidSchema(res.table.info)
  /\ Len(RowsOf(res.table)) = 2
  /\ Len(handles) = 2

\* C3: every handle on a file, whenever it was opened and however many rows
\* were inserted since, has info equal to the schema given to create and
\* data_start equal to the length of the serialized header line, line feed
\* included; the file still starts with that line.
C3_ReopenSameHeader ==
  \A h \in 1..Len(handles) :
    /\ handles[h].info = hist[handles[h].location].info
    /\ _serialize_header(handles[h].info).err = ""
    /\ handles[h].data_start = Len(_serialize_header(handles[h].info).val)
    /\ SubSeq(fs[handles[h].location], 1, handles[h].data_start)
         = _serialize_header(handles[h].info).val

\* A handle was opened on a file that already holds rows, next to the
\* handle create returned.
C3_Witness ==
  /\ res.op = "open" /\ res.err = ""
  /\ Len(handles) = 2
  /\ handles[2].location = res.location
  /\ Len(hist[res.location].rows) >= 1
  /\ hist[res.location].info = sTwoColumns
  /\ handles[2] = handles[1]

\* C4: create fails with NameTooLong exactly when the name has more than
\* 255 characters (255 are accepted), fails with AlreadyExists when the
\* path of the table file already exists, and in both failures leaves the
\* directory as it was: no file made, the existing file's bytes untouched.
C4_CreateRefusals ==
  [][res'.op = "create" =>
       /\ res'.err = NameTooLong <=> Len(res'.name) > MAX_TABLE_NAME_LENGTH
       /\ (Len(res'.name) <= MAX_TABLE_NAME_LENGTH
           /\ PathExists(fs, quote_plus(res'.name)) = Ok(TRUE))
            => res'.err = AlreadyExists
       /\ res'.err \in {NameTooLong, AlreadyExists} => fs' = fs]_vars

\* create was refused for a table whose file holds a row, and the table
\* has a name of exactly 255 characters.
C4_Witness ==
  /\ res.op = "create" /\ res.err = AlreadyExists
  /\ Len(res.name) = MAX_TABLE_NAME_LENGTH
  /\ quote_plus(res.name) \in DOMAIN fs
  /\ Len(hist[quote_plus(res.name)].rows) >= 1

\* C5: an insert or a query that names at least one column the schema does
\* not have fails with ColumnDoesNotExist, and the error names exactly the
\* referenced columns that are absent from the schema.
C5_UnknownColumns ==
  /\ (res.op = "insert"
      /\ res.names \ ColumnNames(res.table.info) # {})
       => /\ res.err = "ColumnDoesNotExist"
          /\ res.cols = res.names \ ColumnNames(res.table.info)
  /\ (res.op = "query"
      /\ Range(res.columns) \ ColumnNames(res.table.info) # {})
       => /\ res.err = "ColumnDoesNotExist"
          /\ res.cols = Range(res.columns) \ ColumnNames(res.table.info)

\* An insert named one schema column and one unknown column, leaving
\* another schema column out, and was refused for the unknown one.
C5_Witness ==
  /\ res.op = "insert" /\ res.err = "ColumnDoesNotExist"
  /\ res.table.info = sTwoColumns
  /\ res.names = {nA, nZ}
  /\ res.cols = {nZ}

\* C6: an insert whose names are all schema columns but leave at least one
\* schema column out fails with UnsupportedFeature; an insert is accepted
\* only when the set of names it gives equals the set of schema columns.
C6_MissingColumns ==
  res.op = "insert"
    => /\ (/\ res.names \subseteq ColumnNames(res.table.info)
           /\ ColumnNames(res.table.info) \ res.names # {})
            => res.err = UnsupportedFeature
       /\ res.err = "" => res.names = ColumnNames(res.table.info)

\* An insert that gave one of two schema columns was refused.
C6_Witness ==
  /\ res.op = "insert" /\ res.err = UnsupportedFeature
  /\ res.table.info = sTwoColumns
  /\ res.names = {nA}

----------------------------------------------------------------------------
(* Claims on the codecs, checked under SpecCodec *)

\* C7: deserialize_value(t, serialize_value(t, v)) = v for every INTEGER v
\* in [-2^63, 2^63 - 1] and every STRING v whose UTF-8 encoding is at most
\* 16 bytes and does not start with NUL (the empty string and strings that
\* fill the slot exactly included).
C7_ValueRoundTrip ==
  (cx.op = "value" /\ FitsSlot(cx.datatype, cx.value)
   /\ ~LeadingNul(cx.value))
    => cx.ser.err = "" /\ cx.de = Ok(cx.value)

\* A string whose encoding fills the 16-byte slot exactly came back.
C7_Witness ==
  /\ cx.op = "value" /\ cx.datatype = "STRING" /\ cx.value.t = "str"
  /\ Utf8Size(cx.value.b) = STRING_LENGTH /\ ~LeadingNul(cx.value)
  /\ cx.de = Ok(cx.value)

\* C8: for every valid schema, deserialize_header(serialize_header(info))
\* returns (info, len(serialize_header(info))); the serialized header holds
\* exactly one line feed, as its last byte.
C8_HeaderRoundTrip ==
  (cx.op = "header" /\ ValidSchema(cx.info))
    => /\ cx.ser.err = ""
       /\ cx.de = Ok([info |-> cx.info, length |-> Len(cx.ser.val)])
       /\ cx.ser.val[Len(cx.ser.val)] = LF
       /\ \A i \in 1..(Len(cx.ser.val) - 1) : cx.ser.val[i] # LF

\* A two-column schema with a line feed in a column name went through.
C8_Witness ==
  /\ cx.op = "header" /\ ValidSchema(cx.info) /\ Len(cx.info) = 2
  /\ \E i \in 1..2 : LF \in Range(cx.info[i].name)
  /\ cx.de.err = "" /\ cx.de.val.info = cx.info

RowFits(info, values) ==
  \A i \in 1..Len(info) : FitsSlot(info[i].datatype, values[info[i].name])

RowHasLeadingNul(info, values) ==
  \E i \in 1..Len(info) : LeadingNul(values[info[i].name])

RowRoundTrips ==
  /\ cx.ser.err = ""
  /\ Len(cx.ser.val) = row_length(cx.info)
  /\ cx.de = Ok([i \in 1..Len(cx.info) |-> cx.values[cx.info[i].name]])

\* C9 as stated: for every valid schema and every row mapping over exactly
\* the schema's columns with values that fit their slots, serialize_row
\* gives row_length bytes and deserialize_row over them (row_start 0, all
\* columns in schema order) reproduces the values.
C9_AsStated ==
  (cx.op = "row" /\ ValidSchema(cx.info) /\ RowFits(cx.info, cx.values))
    => RowRoundTrips

\* C9 (amended): the same, for rows none of whose STRING values starts
\* with a NUL character.
C9_RowRoundTrip ==
  (cx.op = "row" /\ ValidSchema(cx.info) /\ RowFits(cx.info, cx.values)
   /\ ~RowHasLeadingNul(cx.info, cx.values))
    => RowRoundTrips

\* A three-column row with a string that fills its slot came back.
C9_Witness ==
  /\ cx.op = "row" /\ ValidSchema(cx.info) /\ Len(cx.info) = 3
  /\ RowFits(cx.info, cx.values) /\ ~RowHasLeadingNul(cx.info, cx.values)
  /\ \E i \in 1..3 : cx.values[cx.info[i].name] = sFull
  /\ cx.de.err = ""

\* C10: serialize_value returns no bytes for a value that does not fit its
\* slot: a STRING over 16 encoded bytes fails with ValueTooLarge, an INTEGER
\* outside the signed 64-bit range fails with OutOfRange, and whatever is
\* returned has exactly the slot's width and comes from a value that fits.
C10_NoMisfit ==
  cx.op = "value"
    => /\ (cx.datatype = "STRING" /\ cx.value.t = "str"
           /\ Utf8Size(cx.value.b) > STRING_LENGTH)
            => cx.ser.err = ValueTooLarge
       /\ (cx.datatype = "INTEGER" /\ cx.value.t = "int"
           /\ ~InRange64(cx.value))
            => cx.ser.err = OutOfRange
       /\ cx.ser.err = ""
            => /\ FitsSlot(cx.datatype, cx.value)
               /\ Len(cx.ser.val) = _DATATYPE_LENGHTS(cx.datatype)

\* A string of exactly 17 encoded bytes was refused.
C10_Witness ==
  /\ cx.op = "value" /\ cx.datatype = "STRING" /\ cx.value.t = "str"
  /\ Utf8Size(cx.value.b) = STRING_LENGTH + 1
  /\ cx.ser.err = ValueTooLarge

----------------------------------------------------------------------------
(* Claims on names, files and schemas *)

\* C11 as stated: for every name of 1 to 255 characters, create in a
\* directory that holds no table file succeeds, makes exactly the file the
\* name encodes to (which no other name encodes to), and returns a handle
\* whose name is the given name.
C11_AsStated ==
  [][(/\ res'.op = "create"
      /\ Len(res'.name) \in 1..MAX_TABLE_NAME_LENGTH
      /\ DOMAIN fs = {})
       => /\ res'.err = ""
          /\ DOMAIN fs' = {quote_plus(res'.name)}
          /\ \A other \in AllTableNames \ {res'.name} :
               quote_plus(other) # quote_plus(res'.name)
          /\ Len(handles') = Len(handles) + 1
          /\ handles'[Len(handles')].name = res'.name]_vars

\* The rows serialized one after another
RECURSIVE RowBytes(_, _, _)
RowBytes(info, rows, i) ==
  IF i > Len(rows) THEN <<>>
  ELSE _serialize_row(info, rows[i]).val \o RowBytes(info, rows, i + 1)

IsPrefix(a, b) == Len(a) <= Len(b) /\ SubSeq(b, 1, Len(a)) = a

\* C12: whatever inserts (accepted or refused), queries and reopens were
\* made, every table file is the header of the schema given to create
\* followed by the rows of the accepted inserts, in insert order, and for
\* every handle (file size - data_start) is the number of accepted inserts
\* times row_length.
C12_FileIsHeaderAndRows ==
  /\ \A f \in DOMAIN fs :
       fs[f] = _serialize_header(hist[f].info).val
                 \o RowBytes(hist[f].info, hist[f].rows, 1)
  /\ \A h \in 1..Len(handles) :
       Len(fs[handles[h].location]) - handles[h].data_start
         = Len(RowsOf(handles[h])) * row_length(handles[h].info)

\* A refused insert was made on a file that holds two rows.
C12_Witness ==
  /\ res.op = "insert" /\ res.err # ""
  /\ res.table.info = sTwoColumns
  /\ Len(RowsOf(res.table)) = 2
  /\ Len(fs[res.table.location])
       = res.table.data_start + 2 * row_length(res.table.info)

\* C13: an insert that fails (unknown column, omitted column, or a value
\* that cannot be encoded, also in a later column) appends nothing: every
\* file and every handle is as it was before the call, so that every later
\* query reads what it would have read before, and every handle reports
\* the length it reported before.
C13_FailedInsertAppendsNothing ==
  [][(res'.op = "insert" /\ res'.err # "")
       => /\ fs' = fs
          /\ handles' = handles
          /\ \A h \in 1..Len(handles) :
               Table_length(handles[h], Len(fs'[handles[h].location]))
                 = Table_length(handles[h], Len(fs[handles[h].location]))]_vars

\* An insert was refused for an integer out of range in the second column,
\* after the first column was encoded, on a file that holds a row.
C13_Witness ==
  /\ res.op = "insert" /\ res.err = OutOfRange
  /\ res.table.info = sTwoColumns
  /\ res.names = {nA, nQ}
  /\ Len(RowsOf(res.table)) >= 1

\* C14: an accepted insert only appends (every file keeps the bytes it had
\* as a prefix, so a query returns for the rows written before what it
\* returned before, asked for all columns or for one); query and length
\* leave every file as it was.
C14_InsertOnlyAppends ==
  [][/\ res'.op \in {"length", "query"} => fs' = fs
     /\ (res'.op = "insert" /\ res'.err = "")
          => /\ DOMAIN fs' = DOMAIN fs
             /\ \A f \in DOMAIN fs : IsPrefix(fs[f], fs'[f])
             /\ \A columns \in {AllColumns(res'.table.info)}
                                  \cup {<<n>> : n \in
                                          ColumnNames(res'.table.info)} :
                  \E before \in {Table_query(res'.table,
                                             fs[res'.table.location],
                                             columns)} :
                    before.err = ""
                      => IsPrefix(before.rows,
                                  Table_query(res'.table,
                                              fs'[res'.table.location],
                                              columns).rows)]_vars

\* A second row was appended to a file.
C14_Witness ==
  /\ res.op = "insert" /\ res.err = ""
  /\ res.table.info = sTwoColumns
  /\ Len(RowsOf(res.table)) = 2
  /\ RowsOf(res.table)[1] # RowsOf(res.table)[2]

\* The bytes of a row that column i of the schema occupies (0-based offsets
\* from the start of the row), as column_offsets places it
SlotOfColumn(info, i) ==
  {column_offsets(info)[info[i].name] + k :
     k \in 0..(_DATATYPE_LENGHTS(info[i].datatype) - 1)}

\* C15 as stated: the schema of every table that create or open returns
\* has at least one column and pairwise distinct column names, so that
\* row_length > 0 and column_offsets gives every column a slot of its own,
\* disjoint from the slots of the other columns.
C15_AsStated ==
  \A h \in 1..Len(handles) :
    /\ Len(handles[h].info) >= 1
    /\ row_length(handles[h].info) > 0
    /\ \A i, j \in 1..Len(handles[h].info) :
         i # j => /\ handles[h].info[i].name # handles[h].info[j].name
                  /\ SlotOfColumn(handles[h].info, i)
                       \cap SlotOfColumn(handles[h].info, j) = {}

\* The 0-based file positions of column i of row row_num, as the layout
\* of the file gives them: after the header and the rows before, and after
\* the widths of the columns before
RECURSIVE WidthsBefore(_, _)
WidthsBefore(info, i) ==
  IF i = 1 THEN 0
  ELSE WidthsBefore(info, i - 1) + _DATATYPE_LENGHTS(info[i - 1].datatype)

SlotInFile(table, row_num, i) ==
  {table.data_start + row_num * row_length(table.info)
     + WidthsBefore(table.info, i) + k :
   k \in 0..(_DATATYPE_LENGHTS(table.info[i].datatype) - 1)}

\* C17: a query that passes its column check reads exactly the slots of the
\* requested columns of the rows it scans: no byte of another column, no
\* byte of the header, and every byte of each requested slot.
C17_ReadsOnlyRequestedSlots ==
  (res.op = "query"
   /\ Range(res.columns) \subseteq ColumnNames(res.table.info))
    => /\ res.reads
            = UNION {SlotInFile(res.table, row_num, i) :
                       row_num \in 0..(Len(RowsOf(res.table)) - 1),
                       i \in {i \in 1..Len(res.table.info) :
                                res.table.info[i].name
                                  \in Range(res.columns)}}
       /\ \A pos \in res.reads : pos >= res.table.data_start

\* A query of the second column alone scanned two rows.
C17_Witness ==
  /\ res.op = "query" /\ res.err = ""
  /\ res.table.info = sTwoColumns
  /\ res.columns = <<nQ>>
  /\ Len(RowsOf(res.table)) = 2
  /\ Cardinality(res.reads) = 2 * INTEGER_LENGTH

\* C19: at every point every handle on a file, whenever it was opened and
\* whichever handle made the inserts, reports the length and returns the
\* query results (or raises the errors) of a handle opened on the file at
\* that point, so that all handles on the file agree (Callers has one
\* handle of each group of equal Table objects).
C19_HandlesAgree ==
  \A h \in Callers :
    \E fresh \in {Table_init(handles[h].location,
                             fs[handles[h].location])} :
      /\ fresh.err = ""
      /\ Table_length(handles[h], Len(fs[handles[h].location]))
           = Table_length(fresh.val, Len(fs[handles[h].location]))
      /\ \A columns \in QueryArgs(handles[h].info) :
           Table_query(handles[h], fs[handles[h].location], columns)
             = Table_query(fresh.val, fs[handles[h].location], columns)

\* Two handles are on a file that holds two rows, the second of them
\* inserted after both handles were made.
C19_Witness ==
  /\ Len(handles) = 2
  /\ handles[1].location = handles[2].location
  /\ handles[1].info = sTwoColumns
  /\ Len(RowsOf(handles[1])) = 2
  /\ res.op = "insert" /\ res.err = ""

----------------------------------------------------------------------------
(* Claims on interleaved calls, checked under SpecRace *)

\* The callers that hold a handle create returned for the file
MadeBy(cs, f) ==
  {p \in Procs : /\ cs[p].pc \in {"ready", "scan"}
                 /\ cs[p].made
                 /\ cs[p].table.location = f}

\* Caller p opens the file for the header of its create in this step
OpensForWrite(p) ==
  calls[p].pc = "create_truncate" /\ calls'[p].pc = "create_write"

\* Caller p writes the header of its create in this step
WritesHeader(p) ==
  calls[p].pc = "create_write" /\ calls'[p].pc = "create_open"

\* C16 as stated: among the create calls for a name, also when their
\* existence checks and header writes interleave, at most one succeeds, and
\* no create writes over a file that is already there: the file it opens
\* for writing is new and the header goes into an empty file.
C16_AsStated ==
  [][/\ \A f \in DOMAIN fs' : Cardinality(MadeBy(calls', f)) <= 1
     /\ \A p \in Procs :
          /\ OpensForWrite(p) => calls[p].location \notin DOMAIN fs
          /\ WritesHeader(p) => fs[calls[p].location] = <<>>]_vars

\* C16 (amended): the same for create calls that run one after another,
\* that is, for every create between whose existence check and header
\* write no other create wrote the file.
C16_CreateOnce ==
  [][/\ \A f \in DOMAIN fs' :
          Cardinality({p \in MadeBy(calls', f) : ~calls'[p].raced}) <= 1
     /\ \A p \in Procs :
          /\ (OpensForWrite(p) /\ ~calls[p].raced)
               => calls[p].location \notin DOMAIN fs
          /\ (WritesHeader(p) /\ ~calls[p].raced)
               => fs[calls[p].location] = <<>>]_vars

\* A create was refused because the file was there, made by a create that
\* ran alone, and holding a row by now.
C16_Witness ==
  /\ res.op = "create" /\ res.err = AlreadyExists
  /\ \E p \in Procs :
       /\ calls[p].pc = "ready" /\ calls[p].made /\ ~calls[p].raced
       /\ Len(hist[calls[p].table.location].rows) >= 1
       /\ quote_plus(res.name) = calls[p].table.location

\* The records a query of the columns returns for the rows
Projected(rows, columns) ==
  [i \in 1..Len(rows) |-> [n \in Range(columns) |-> rows[i][n]]]

\* C18 as stated: every query of schema columns passes its closing
\* assertion and returns the rows the file held when the scan began, also
\* when another caller wrote the file during the scan.
C18_AsStated ==
  (res.op = "query"
   /\ Range(res.columns) \subseteq ColumnNames(res.table.info))
    => /\ res.err = ""
       /\ res.rows = Projected(res.at_start, res.columns)

\* C18 (amended): every query of schema columns on a table of a valid
\* schema, on a file that one create alone has opened for writing (no
\* create found the file there when it opened it), during which no caller
\* wrote the file between the start of the scan and the closing assertion,
\* passes the assertion, and for a column list that is not empty it
\* returns the rows inserted before the scan began.
C18_UndisturbedQuery ==
  (res.op = "query" /\ ~res.touched /\ ~res.remade
   /\ ValidSchema(res.table.info)
   /\ Range(res.columns) \subseteq ColumnNames(res.table.info))
    => /\ res.err = ""
       /\ res.columns # <<>>
            => res.rows = Projected(res.at_start, res.columns)

\* A query returned two rows of a file that one create made, while
\* another caller held a handle on the file and wrote nothing during the
\* scan.
C18_Witness ==
  /\ res.op = "query" /\ res.err = "" /\ ~res.touched /\ ~res.remade
  /\ res.table.info = sTwoColumns /\ res.columns = <<nQ, nA>>
  /\ Len(res.rows) = 2
  /\ \A p \in Procs :
       calls[p].pc = "ready" /\ calls[p].table.location = res.table.location

====
